---- MODULE Spec2Model ----
(***************************************************************************)
(* The OpenFGA example client (examples/mongodb/client/main.go) together   *)
(* with the authorization service it talks to.  The client (OpenFGAClient, *)
(* doRequest, main) is translated from the Go source.  The service (store  *)
(* creation, model store, tuple store, rewrite evaluator) is not part of   *)
(* the source files and is modelled from the design document (sections 3,  *)
(* 4 and 7); its definitions carry the prefix Srv or are named as the      *)
(* design document names them.                                             *)
(***************************************************************************)
EXTENDS Integers, Sequences, FiniteSets, TLC

VARIABLES
    storeID,                \* OpenFGAClient.storeID
    authorizationModelID,   \* OpenFGAClient.authorizationModelID
    srvTuples,              \* service: store id -> set of tuples
    srvModels,              \* service: sequence of [id, store, type_definitions]
    srvDiag,                \* service: diagnostics a check can surface (one per evaluation order)
    lastCall,               \* the client operation that ran last, its input and what it returned
    lastReqs,               \* the HTTP requests that operation sent, in order
    retStore,               \* the ID the last successful CreateStore returned
    retModel,               \* the ID the last successful WriteAuthorizationModel returned
    written,                \* tuples successful Writes submitted: once, and more than once
    pc,                     \* main: the step about to run; "api" when a caller drives the client
    i,                      \* main: index of the next test case
    allPassed,              \* main: allPassed
    exitStatus,             \* main: process exit status, -1 while running
    verdict,                \* main: the verdict printed, "none" before
    trace                   \* main: the client calls made so far, in order

vars == <<storeID, authorizationModelID, srvTuples, srvModels, srvDiag, lastCall,
          lastReqs, retStore, retModel, written, pc, i, allPassed, exitStatus,
          verdict, trace>>

clientVars == <<storeID, authorizationModelID>>
srvVars == <<srvTuples, srvModels, srvDiag>>
mainVars == <<i, allPassed, exitStatus, verdict, trace>>

(***************************************************************************)
(* Bounds of the model.                                                    *)
(***************************************************************************)
MaxStores == 2
MaxModels == 1
MaxLen == 2

(***************************************************************************)
(* Names.  Users and objects are the strings "type:id"; a userset          *)
(* reference is "type:id#relation".                                        *)
(***************************************************************************)
Alice == "user:alice"
Bob == "user:bob"
Charlie == "user:charlie"
Dave == "user:dave"
Budget == "document:budget-2024"
DocX == "document:x"
DocY == "document:y"

Users == {Alice, Bob, Charlie, Dave}
Documents == {Budget, DocX, DocY}
Relations == {"owner"}

TupleKey(user, relation, object) == [user |-> user, relation |-> relation, object |-> object]

UsersetRef(object, relation) == object \o "#" \o relation
IsUserset(u) == \E o \in Documents, r \in Relations : u = UsersetRef(o, r)
UsersetObject(u) == CHOOSE o \in Documents : \E r \in Relations : u = UsersetRef(o, r)
UsersetRelation(u) == CHOOSE r \in Relations : \E o \in Documents : u = UsersetRef(o, r)
TypeOf(e) == IF e \in Users THEN "user" ELSE "document"

NoID == ""
StoreIdOf(n) == "store-" \o ToString(n)
ModelIdOf(n) == "model-" \o ToString(n)

(***************************************************************************)
(* The authorization model main writes: document.owner is the union of the *)
(* single child "this", directly assignable to type user.                  *)
(***************************************************************************)
This == [kind |-> "this", child |-> <<>>]
Union(children) == [kind |-> "union", child |-> children]

\* Variant: the union's child list left empty.
typeDefinitionsNoThis ==
    << [type |-> "user", relations |-> <<>>, directly_related_user_types |-> <<>>],
       [type |-> "document",
        relations |-> [owner |-> Union(<<>>)],
        directly_related_user_types |-> [owner |-> {[type |-> "user", relation |-> ""]}]] >>

typeDefinitions ==
    << [type |-> "user", relations |-> <<>>, directly_related_user_types |-> <<>>],
       [type |-> "document",
        relations |-> [owner |-> Union(<<This>>)],
        directly_related_user_types |-> [owner |-> {[type |-> "user", relation |-> ""]}]] >>

authModel == [schema_version |-> "1.1", type_definitions |-> typeDefinitions]

\* A second model a caller of the client may write: owner may also be granted
\* to the owners of another document (a userset reference).
usersetTypeDefinitions ==
    << [type |-> "user", relations |-> <<>>, directly_related_user_types |-> <<>>],
       [type |-> "document",
        relations |-> [owner |-> Union(<<This>>)],
        directly_related_user_types |->
            [owner |-> {[type |-> "user", relation |-> ""],
                        [type |-> "document", relation |-> "owner"]}]] >>

usersetModel == [schema_version |-> "1.1", type_definitions |-> usersetTypeDefinitions]


(***************************************************************************)
(* The service: model store (design 4.1).                                  *)
(***************************************************************************)
RuleKinds == {"this", "union"}

RECURSIVE ValidRule(_)
ValidRule(rule) ==
    /\ rule.kind \in RuleKinds
    /\ \A k \in 1..Len(rule.child) : ValidRule(rule.child[k])

\* WriteModel validates the model: every relation's rewrite tree is well formed.
ValidModel(model) ==
    \A k \in 1..Len(model.type_definitions) :
        LET td == model.type_definitions[k] IN
        \A r \in DOMAIN td.relations : ValidRule(td.relations[r])

SrvStores == DOMAIN srvTuples

ModelsOf(store) == SelectSeq(srvModels, LAMBDA m : m.store = store)

\* GetModel(storeID, modelID): the model with that ID in the store.
HasModel(store, modelID) ==
    \E k \in 1..Len(srvModels) : srvModels[k].store = store /\ srvModels[k].id = modelID

GetModel(store, modelID) ==
    (CHOOSE m \in {srvModels[k] : k \in 1..Len(srvModels)} :
        m.store = store /\ m.id = modelID).type_definitions

\* GetModel(storeID, nil): the most recently written model of the store.
LatestModel(store) == ModelsOf(store)[Len(ModelsOf(store))].type_definitions

HasTypeDef(typeDefs, type) == \E k \in 1..Len(typeDefs) : typeDefs[k].type = type

TypeDef(typeDefs, type) ==
    typeDefs[CHOOSE k \in 1..Len(typeDefs) : typeDefs[k].type = type]

HasRelation(typeDefs, type, relation) ==
    /\ HasTypeDef(typeDefs, type)
    /\ relation \in DOMAIN TypeDef(typeDefs, type).relations

RewriteRule(typeDefs, type, relation) == TypeDef(typeDefs, type).relations[relation]

\* The (type, relation) pair a tuple's user field refers to.
UserRef(u) ==
    IF IsUserset(u)
    THEN [type |-> TypeOf(UsersetObject(u)), relation |-> UsersetRelation(u)]
    ELSE [type |-> TypeOf(u), relation |-> ""]

\* A tuple is accepted under a model when its relation is declared on the
\* object's type and its user is of a directly assignable (type, relation).
ValidTuple(typeDefs, t) ==
    /\ HasRelation(typeDefs, TypeOf(t.object), t.relation)
    /\ UserRef(t.user) \in
           TypeDef(typeDefs, TypeOf(t.object)).directly_related_user_types[t.relation]

(***************************************************************************)
(* The service: rewrite evaluator (design 4.3).  An evaluation yields      *)
(* [allowed, diags]; because the tuple store enumerates tuples in no       *)
(* guaranteed order and evaluation short-circuits, the operators return    *)
(* the set of results the possible orders produce.                         *)
(***************************************************************************)
MaxDepth == 25

Result(allowed, diags) == [allowed |-> allowed, diags |-> diags]

\* The diagnostics gathered from the branches of F explored before the
\* evaluation stopped: every branch when all is TRUE, any subset otherwise.
RECURSIVE BranchDiags(_, _, _)
BranchDiags(outs, F, all) ==
    IF F = {} THEN {{}}
    ELSE LET f == CHOOSE x \in F : TRUE
             rest == BranchDiags(outs, F \ {f}, all)
             with == {r \cup o.diags : r \in rest, o \in outs[f]}
         IN IF all THEN with ELSE with \cup rest

\* Variant: a re-encountered triple taken as granted.
CycleOutcomeAllowed == {Result(TRUE, {"CycleDetectedError"})}

\* The outcome of re-encountering a triple on the current recursion path.
CycleOutcome == {Result(FALSE, {"CycleDetectedError"})}

RECURSIVE Evaluate(_, _, _, _, _, _)
RECURSIVE EvalRule(_, _, _, _, _, _, _)
RECURSIVE Direct(_, _, _, _, _, _)
RECURSIVE UnionFrom(_, _, _, _, _, _, _, _)

\* Direct: a tuple (user, relation, object) exists, or a tuple
\* (V#R2, relation, object) exists with Evaluate(user, R2, V) true.
Direct(typeDefs, ts, user, relation, object, visited) ==
    LET direct == TupleKey(user, relation, object) \in ts
        refs == {t \in ts : t.relation = relation /\ t.object = object /\ IsUserset(t.user)}
        outs == [t \in refs |->
                    Evaluate(typeDefs, ts, user, UsersetRelation(t.user),
                             UsersetObject(t.user), visited)]
        trueB == {t \in refs : \E o \in outs[t] : o.allowed}
        falseB == refs \ trueB
        trueDiags == (IF direct THEN {{}} ELSE {})
                     \cup {o.diags : o \in UNION {outs[t] : t \in trueB}}
    IN  IF direct \/ trueB # {}
        THEN {Result(TRUE, d \cup r) : d \in trueDiags, r \in BranchDiags(outs, falseB, FALSE)}
        ELSE {Result(FALSE, r) : r \in BranchDiags(outs, falseB, TRUE)}

\* Union(children): true iff any child is true, children tried in order,
\* stopping at the first true one.
UnionFrom(typeDefs, ts, children, k, user, relation, object, visited) ==
    IF k > Len(children) THEN {Result(FALSE, {})}
    ELSE LET first == EvalRule(typeDefs, ts, children[k], user, relation, object, visited)
             rest == UnionFrom(typeDefs, ts, children, k + 1, user, relation, object, visited)
         IN  {o \in first : o.allowed}
             \cup {Result(r.allowed, o.diags \cup r.diags) :
                      o \in {x \in first : ~x.allowed}, r \in rest}

EvalRule(typeDefs, ts, rule, user, relation, object, visited) ==
    CASE rule.kind = "this" -> Direct(typeDefs, ts, user, relation, object, visited)
      [] rule.kind = "union" ->
            UnionFrom(typeDefs, ts, rule.child, 1, user, relation, object, visited)
      [] OTHER -> {Result(FALSE, {})}

\* Evaluate with the cycle guard and the depth guard.
Evaluate(typeDefs, ts, user, relation, object, visited) ==
    IF <<user, relation, object>> \in visited THEN CycleOutcome
    ELSE IF Cardinality(visited) >= MaxDepth
         THEN {Result(FALSE, {"DepthExceededError"})}
    ELSE EvalRule(typeDefs, ts, RewriteRule(typeDefs, TypeOf(object), relation),
                  user, relation, object, visited \cup {<<user, relation, object>>})

\* Check (design 4.4): the evaluator with a fresh empty visited set.
SrvCheck(typeDefs, ts, user, relation, object) ==
    Evaluate(typeDefs, ts, user, relation, object, {})

(***************************************************************************)
(* The service: the HTTP surface (design 6) over the model store, the      *)
(* tuple store (design 4.2, non-strict) and the evaluator.                 *)
(***************************************************************************)
Nil == <<>>

\* The model a request names; an absent or empty ID means the latest one.
RequestedModelID(body) ==
    IF "authorization_model_id" \in DOMAIN body THEN body.authorization_model_id ELSE NoID

HasResolvedModel(store, modelID) ==
    IF modelID = NoID THEN Len(ModelsOf(store)) > 0 ELSE HasModel(store, modelID)

ResolvedModel(store, modelID) ==
    IF modelID = NoID THEN LatestModel(store) ELSE GetModel(store, modelID)

SrvWriteTupleKeys(body) == {body.writes[k].tuple_key : k \in 1..Len(body.writes)}

SrvAcceptsCreateStore(req) == Cardinality(SrvStores) < MaxStores

SrvAcceptsWriteModel(req) ==
    /\ req.path.store \in SrvStores
    /\ ValidModel(req.body)
    /\ Len(srvModels) < MaxModels

SrvAcceptsWrite(req) ==
    /\ req.path.store \in SrvStores
    /\ HasResolvedModel(req.path.store, RequestedModelID(req.body))
    /\ \A t \in SrvWriteTupleKeys(req.body) :
           ValidTuple(ResolvedModel(req.path.store, RequestedModelID(req.body)), t)

SrvAcceptsCheck(req) ==
    /\ req.path.store \in SrvStores
    /\ HasResolvedModel(req.path.store, RequestedModelID(req.body))
    /\ HasRelation(ResolvedModel(req.path.store, RequestedModelID(req.body)),
                   TypeOf(req.body.object), req.body.relation)

SrvAcceptsRead(req) == req.path.store \in SrvStores

\* Tuple store write: a set insert; an already-present tuple is a no-op.
SrvInsert(ts, new) == ts \cup new

RECURSIVE Orders(_)
\* Every enumeration of a tuple set: Read promises no order.
Orders(S) ==
    IF S = {} THEN {<<>>}
    ELSE UNION {{<<x>> \o rest : rest \in Orders(S \ {x})} : x \in S}

SrvReadResponses(store) ==
    {[tuples |-> [k \in 1..Len(o) |-> [key |-> o[k]]]] : o \in Orders(srvTuples[store])}

(***************************************************************************)
(* The client: requests and doRequest.                                     *)
(***************************************************************************)
Path(store, endpoint) == [store |-> store, endpoint |-> endpoint]
Request(method, path, body) == [method |-> method, path |-> path, body |-> body]

\* How a request can end: "ok", a transport error (the service may or may
\* not have acted on the request), a status >= 400 (the service rejected
\* it), or a 2xx response whose body does not decode.
Kinds == {"ok", "transport", "status", "decode"}

Responses(hasResult, accepted) ==
    {r \in [kind : Kinds, processed : BOOLEAN] :
        /\ r.kind = "ok" => r.processed
        /\ r.kind = "decode" => r.processed /\ hasResult
        /\ r.kind = "status" => ~r.processed
        /\ r.processed => accepted}

\* Variant: doRequest sending the request again after a failure.
RequestsSentRetry(req, r) == IF r.kind = "ok" THEN <<req>> ELSE <<req, req>>

\* doRequest builds one request and calls httpClient.Do once.
RequestsSent(req, r) == <<req>>

\* doRequest's return value (TRUE for a non-nil error): the error of
\* httpClient.Do, the error made of a status >= 400, or, when the caller
\* passed a result, the error of json.Unmarshal.
doRequestErr(r, hasResult) ==
    CASE r.kind = "transport" -> TRUE
      [] r.kind = "status" -> TRUE
      [] hasResult -> r.kind = "decode"
      [] OTHER -> FALSE

\* What a call did: its input, how its request ended on the wire, the error
\* it returned (TRUE for a non-nil error), its result, whether it panicked.
CallResult(op, input, wire, err, value, panic) ==
    [op |-> op, input |-> input, wire |-> wire, err |-> err, value |-> value,
     panic |-> panic]

NoCall == CallResult("none", Nil, "nil", FALSE, Nil, FALSE)

NoneWritten == [once |-> {}, again |-> {}]

\* srvDiag when the last request served was not a check.
NoDiag == [store |-> NoID, user |-> NoID, relation |-> NoID, object |-> NoID,
           allowed |-> FALSE, diags |-> {}]

(***************************************************************************)
(* The client: OpenFGAClient's operations.  r is the way the request ends. *)
(***************************************************************************)
CreateStoreRequest(name) == [name |-> name]
DecodeStore(body) == [ID |-> body.id, Name |-> body.name]

CreateStore(name, r) ==
    LET req == Request("POST", Path(NoID, "stores"), CreateStoreRequest(name))
        newID == StoreIdOf(Cardinality(SrvStores) + 1)
        store == DecodeStore([id |-> newID, name |-> name])
        err == doRequestErr(r, TRUE)
    IN  /\ r \in Responses(TRUE, SrvAcceptsCreateStore(req))
        /\ lastReqs' = RequestsSent(req, r)
        /\ IF r.processed
           THEN srvTuples' = srvTuples @@ (newID :> {})
           ELSE UNCHANGED srvTuples
        /\ storeID' = IF err THEN storeID ELSE store.ID
        /\ retStore' = IF err THEN retStore ELSE newID
        /\ lastCall' = CallResult("CreateStore", name, r.kind, err, IF err THEN Nil ELSE store, FALSE)
        /\ srvDiag' = NoDiag
        /\ UNCHANGED <<authorizationModelID, srvModels, retModel>>

DecodeWriteAuthModelResponse(body) == [AuthorizationModelID |-> body.authorization_model_id]

WriteAuthorizationModel(model, r) ==
    LET req == Request("POST", Path(storeID, "authorization-models"), model)
        newID == ModelIdOf(Len(srvModels) + 1)
        resp == DecodeWriteAuthModelResponse([authorization_model_id |-> newID])
        err == doRequestErr(r, TRUE)
    IN  /\ r \in Responses(TRUE, SrvAcceptsWriteModel(req))
        /\ lastReqs' = RequestsSent(req, r)
        /\ srvModels' = IF r.processed
                        THEN Append(srvModels, [id |-> newID, store |-> req.path.store,
                                                type_definitions |-> req.body.type_definitions])
                        ELSE srvModels
        /\ authorizationModelID' = IF err THEN authorizationModelID ELSE resp.AuthorizationModelID
        /\ retModel' = IF err THEN retModel ELSE newID
        /\ lastCall' = CallResult("WriteAuthorizationModel", model, r.kind, err,
                                  IF err THEN Nil ELSE resp, FALSE)
        /\ srvDiag' = NoDiag
        /\ UNCHANGED <<storeID, srvTuples, retStore>>

\* The "writes" array Write builds: one entry, from tuples[0].
WriteEntries(tuples) ==
    << [tuple_key |-> [user |-> tuples[1].user, relation |-> tuples[1].relation,
                       object |-> tuples[1].object]] >>

\* Variant: the request map without its "authorization_model_id" entry.
WriteBodyNoModel(tuples, modelID) == [writes |-> WriteEntries(tuples)]

\* The request map Write builds.
WriteBody(tuples, modelID) ==
    [writes |-> WriteEntries(tuples), authorization_model_id |-> modelID]

WritePath(store) == Path(store, "write")

\* Write indexes tuples[0] before anything is sent: an empty list panics
\* (nothing is sent, so r plays no part and is fixed).
Write(tuples, r) ==
    IF Len(tuples) = 0
    THEN /\ r = [kind |-> "transport", processed |-> FALSE]
         /\ lastReqs' = <<>>
         /\ lastCall' = CallResult("Write", tuples, "unsent", TRUE, Nil, TRUE)
         /\ srvDiag' = NoDiag
         /\ UNCHANGED <<clientVars, srvTuples, srvModels, retStore, retModel>>
    ELSE LET req == Request("POST", WritePath(storeID), WriteBody(tuples, authorizationModelID))
             err == doRequestErr(r, FALSE)
         IN  /\ r \in Responses(FALSE, SrvAcceptsWrite(req))
             /\ lastReqs' = RequestsSent(req, r)
             /\ srvTuples' = IF r.processed
                             THEN [srvTuples EXCEPT ![req.path.store] =
                                      SrvInsert(@, SrvWriteTupleKeys(req.body))]
                             ELSE srvTuples
             /\ lastCall' = CallResult("Write", tuples, r.kind, err, Nil, FALSE)
             /\ srvDiag' = NoDiag
             /\ UNCHANGED <<clientVars, srvModels, retStore, retModel>>

CheckRequest(user, relation, object) == [user |-> user, relation |-> relation, object |-> object]
DecodeCheckResponse(body) == [Allowed |-> body.allowed]
ZeroCheckResponse == [Allowed |-> FALSE]
CheckPath(store) == Path(store, "check")

\* The results the service can give a check request; a request it never
\* acted on has none, and the client then sees only the error.
SrvCheckResults(req, r) ==
    IF r.processed
    THEN SrvCheck(ResolvedModel(req.path.store, RequestedModelID(req.body)),
                  srvTuples[req.path.store],
                  req.body.user, req.body.relation, req.body.object)
    ELSE {Result(FALSE, {})}

\* Check returns &resp with the error: resp is the zero value on an error.
Check(user, relation, object, r) ==
    LET req == Request("POST", CheckPath(storeID), CheckRequest(user, relation, object))
        err == doRequestErr(r, TRUE)
    IN  /\ r \in Responses(TRUE, SrvAcceptsCheck(req))
        /\ lastReqs' = RequestsSent(req, r)
        /\ \E out \in SrvCheckResults(req, r) :
              /\ srvDiag' = IF r.processed
                            THEN [store |-> req.path.store, user |-> req.body.user,
                                  relation |-> req.body.relation, object |-> req.body.object,
                                  allowed |-> out.allowed, diags |-> out.diags]
                            ELSE NoDiag
              /\ lastCall' = CallResult("Check", CheckRequest(user, relation, object), r.kind, err,
                                        IF err THEN ZeroCheckResponse
                                        ELSE DecodeCheckResponse([allowed |-> out.allowed]),
                                        FALSE)
        /\ UNCHANGED <<clientVars, srvTuples, srvModels, retStore, retModel>>

ZeroReadResponse == [Tuples |-> <<>>]

\* Variant: a field tag that matches nothing in the body, so nothing decodes.
DecodeReadResponseNone(body) == [Tuples |-> <<>>]

\* ReadResponse: the "tuples" array, each element's "key".
DecodeReadResponse(body) ==
    [Tuples |-> [k \in 1..Len(body.tuples) |-> [Key |-> body.tuples[k].key]]]

\* The response bodies the service can give a read request.
SrvReadResults(req, r) ==
    IF r.processed THEN SrvReadResponses(req.path.store) ELSE {[tuples |-> <<>>]}

Read(r) ==
    LET req == Request("POST", Path(storeID, "read"), Nil)
        err == doRequestErr(r, TRUE)
    IN  /\ r \in Responses(TRUE, SrvAcceptsRead(req))
        /\ lastReqs' = RequestsSent(req, r)
        /\ \E body \in SrvReadResults(req, r) :
              lastCall' = CallResult("Read", Nil, r.kind, err,
                                     IF err THEN ZeroReadResponse
                                     ELSE DecodeReadResponse(body), FALSE)
        /\ srvDiag' = NoDiag
        /\ UNCHANGED <<clientVars, srvTuples, srvModels, retStore, retModel>>

(***************************************************************************)
(* Inputs.                                                                 *)
(***************************************************************************)
AllResponses == [kind : Kinds, processed : BOOLEAN]

AliceOwnsBudget == TupleKey(Alice, "owner", Budget)
BobOwnsBudget == TupleKey(Bob, "owner", Budget)

\* The tuples a caller of the client writes.
TupleUniverse == {AliceOwnsBudget, BobOwnsBudget}

RECURSIVE ListsUpTo(_, _)
ListsUpTo(S, n) ==
    IF n = 0 THEN {<<>>}
    ELSE ListsUpTo(S, n - 1)
         \cup {Append(l, x) : l \in {m \in ListsUpTo(S, n - 1) : Len(m) = n - 1}, x \in S}

TupleLists == ListsUpTo(TupleUniverse, MaxLen)


(***************************************************************************)
(* A caller drives the client: any operation, any input, in any order.     *)
(***************************************************************************)
\* The state after NewOpenFGAClient, against a service holding no store.
Fresh(at) ==
    /\ storeID = NoID
    /\ authorizationModelID = NoID
    /\ srvTuples = <<>>
    /\ srvModels = <<>>
    /\ srvDiag = NoDiag
    /\ lastCall = NoCall
    /\ lastReqs = <<>>
    /\ retStore = NoID
    /\ retModel = NoID
    /\ written = NoneWritten
    /\ pc = at
    /\ i = 1
    /\ allPassed = TRUE
    /\ exitStatus = -1
    /\ verdict = "none"
    /\ trace = <<>>

InitAPI == Fresh("api")

ApiCreateStore ==
    /\ pc = "api"
    /\ \E r \in AllResponses : CreateStore("document-sharing-system", r)
    /\ UNCHANGED <<pc, mainVars, written>>

ApiWriteAuthorizationModel ==
    /\ pc = "api"
    /\ \E r \in AllResponses : WriteAuthorizationModel(authModel, r)
    /\ UNCHANGED <<pc, mainVars, written>>

ApiWrite ==
    /\ pc = "api"
    /\ \E tuples \in TupleLists, r \in AllResponses : Write(tuples, r)
    /\ pc' = IF lastCall'.panic THEN "panic" ELSE pc
    /\ UNCHANGED <<mainVars, written>>

ApiCheck ==
    /\ pc = "api"
    /\ \E user \in {Alice, Bob}, object \in {Budget}, r \in AllResponses :
           Check(user, "owner", object, r)
    /\ UNCHANGED <<pc, mainVars, written>>

ApiRead ==
    /\ pc = "api"
    /\ \E r \in AllResponses : Read(r)
    /\ UNCHANGED <<pc, mainVars, written>>

NextAPI ==
    \/ ApiCreateStore
    \/ ApiWriteAuthorizationModel
    \/ ApiWrite
    \/ ApiCheck
    \/ ApiRead

SpecAPI == InitAPI /\ [][NextAPI]_vars

(***************************************************************************)
(* main: the example run, one action per step.                             *)
(***************************************************************************)
tuples == << TupleKey(Alice, "owner", Budget) >>

testCases ==
    << [user |-> Alice, relation |-> "owner", object |-> Budget, expected |-> TRUE],
       [user |-> Bob, relation |-> "owner", object |-> Budget, expected |-> FALSE],
       [user |-> Charlie, relation |-> "owner", object |-> Budget, expected |-> FALSE],
       [user |-> Dave, relation |-> "owner", object |-> Budget, expected |-> FALSE] >>

\* What main sees and prints of a call: the operation, its subject, whether
\* it returned an error and which, and the decision of a check.
TraceEntry(call, reqs) ==
    [op |-> call.op,
     arg |-> IF call.op = "Check" THEN call.input.user ELSE NoID,
     err |-> call.err,
     msg |-> IF call.err THEN call.wire ELSE "nil",
     reqs |-> Len(reqs),
     allowed |-> IF call.op = "Check" THEN call.value.Allowed ELSE FALSE]

\* Variant: the error of a step not checked.
AfterFatalIgnored(err, next) == next

\* log.Fatalf after a failed step: the process exits with status 1.
AfterFatal(err, next) == IF err THEN "exit" ELSE next

FatalStatus(err) == IF err THEN 1 ELSE -1

\* passed := checkResponse.Allowed == testCase.expected
Passed(resp, testCase) == resp.Allowed = testCase.expected

\* Variant: a failed check leaving allPassed as it was.
UpdateAllPassedNoErr(ap, err, passed) == IF err THEN ap ELSE ap /\ passed

\* allPassed after one iteration of the check loop.
UpdateAllPassed(ap, err, passed) == IF err THEN FALSE ELSE ap /\ passed

\* Variant: the loop left at the first failed check.
AfterCheckBreak(idx, err) ==
    IF err \/ idx + 1 > Len(testCases) THEN "read" ELSE "check"

\* The check loop runs over every test case; an error only continues.
AfterCheck(idx, err) == IF idx + 1 > Len(testCases) THEN "read" ELSE "check"

Init == Fresh("create")

MainCreateStore ==
    /\ pc = "create"
    /\ \E r \in AllResponses :
           /\ CreateStore("document-sharing-system", r)
           /\ trace' = Append(trace, TraceEntry(lastCall', lastReqs'))
    /\ pc' = AfterFatal(lastCall'.err, "model")
    /\ exitStatus' = FatalStatus(lastCall'.err)
    /\ UNCHANGED <<i, allPassed, verdict, written>>

MainWriteAuthorizationModel ==
    /\ pc = "model"
    /\ \E r \in AllResponses :
           /\ WriteAuthorizationModel(authModel, r)
           /\ trace' = Append(trace, TraceEntry(lastCall', lastReqs'))
    /\ pc' = AfterFatal(lastCall'.err, "write")
    /\ exitStatus' = FatalStatus(lastCall'.err)
    /\ UNCHANGED <<i, allPassed, verdict, written>>

MainWrite ==
    /\ pc = "write"
    /\ \E r \in AllResponses :
           /\ Write(tuples, r)
           /\ trace' = Append(trace, TraceEntry(lastCall', lastReqs'))
    /\ pc' = AfterFatal(lastCall'.err, "check")
    /\ exitStatus' = FatalStatus(lastCall'.err)
    /\ UNCHANGED <<i, allPassed, verdict, written>>

MainCheck ==
    /\ pc = "check"
    /\ \E r \in AllResponses :
           /\ Check(testCases[i].user, testCases[i].relation, testCases[i].object, r)
           /\ trace' = Append(trace, TraceEntry(lastCall', lastReqs'))
    /\ allPassed' = UpdateAllPassed(allPassed, lastCall'.err,
                                    Passed(lastCall'.value, testCases[i]))
    /\ pc' = AfterCheck(i, lastCall'.err)
    /\ i' = i + 1
    /\ UNCHANGED <<exitStatus, verdict, written>>

MainRead ==
    /\ pc = "read"
    /\ \E r \in AllResponses :
           /\ Read(r)
           /\ trace' = Append(trace, TraceEntry(lastCall', lastReqs'))
    /\ pc' = AfterFatal(lastCall'.err, "final")
    /\ exitStatus' = FatalStatus(lastCall'.err)
    /\ UNCHANGED <<i, allPassed, verdict, written>>

\* The final result: the success verdict and a normal return, or os.Exit(1).
MainFinal ==
    /\ pc = "final"
    /\ verdict' = IF allPassed THEN "passed" ELSE "failed"
    /\ exitStatus' = IF allPassed THEN 0 ELSE 1
    /\ pc' = "exit"
    /\ UNCHANGED <<clientVars, srvVars, lastCall, lastReqs, retStore, retModel, written,
                   i, allPassed, trace>>

\* The service is shared: while main runs, another client may grant Bob the
\* relation on the same document (the store's model accepts the tuple).
OtherClientWrite ==
    /\ pc \in {"write", "check"}
    /\ storeID \in SrvStores
    /\ Len(ModelsOf(storeID)) > 0
    /\ ValidTuple(LatestModel(storeID), BobOwnsBudget)
    /\ BobOwnsBudget \notin srvTuples[storeID]
    /\ srvTuples' = [srvTuples EXCEPT ![storeID] = SrvInsert(@, {BobOwnsBudget})]
    /\ UNCHANGED <<clientVars, srvModels, srvDiag, lastCall, lastReqs, retStore, retModel,
                   written, pc, mainVars>>

Next ==
    \/ OtherClientWrite
    \/ MainCreateStore
    \/ MainWriteAuthorizationModel
    \/ MainWrite
    \/ MainCheck
    \/ MainRead
    \/ MainFinal

Spec == Init /\ [][Next]_vars

(***************************************************************************)
(* A store in use under the userset model.  The state at the start is the  *)
(* one CreateStore and WriteAuthorizationModel(usersetModel) leave.        *)
(***************************************************************************)
InUse(at) ==
    /\ storeID = StoreIdOf(1)
    /\ authorizationModelID = ModelIdOf(1)
    /\ srvTuples = (StoreIdOf(1) :> {})
    /\ srvModels = << [id |-> ModelIdOf(1), store |-> StoreIdOf(1),
                       type_definitions |-> usersetModel.type_definitions] >>
    /\ srvDiag = NoDiag
    /\ lastCall = NoCall
    /\ lastReqs = <<>>
    /\ retStore = StoreIdOf(1)
    /\ retModel = ModelIdOf(1)
    /\ written = NoneWritten
    /\ pc = at
    /\ i = 1
    /\ allPassed = TRUE
    /\ exitStatus = -1
    /\ verdict = "none"
    /\ trace = <<>>

(***************************************************************************)
(* A caller writes tuples, some more than once, and reads them back.       *)
(***************************************************************************)
StoreTuples ==
    {TupleKey(Alice, "owner", Budget),
     TupleKey(Bob, "owner", Budget),
     TupleKey(UsersetRef(Budget, "owner"), "owner", DocX)}

InitStore == InUse("store")

\* The tuples the requests of a call submitted.
Submitted(reqs) == UNION {SrvWriteTupleKeys(reqs[k].body) : k \in 1..Len(reqs)}

\* written after a Write: a tuple a successful Write submitted is written
\* once, and written again when it had been written before.
Record(w, call, reqs) ==
    IF call.err THEN w
    ELSE [once |-> w.once \cup Submitted(reqs),
          again |-> w.again \cup (Submitted(reqs) \cap w.once)]

StoreWrite ==
    /\ pc = "store"
    /\ \E t \in StoreTuples, r \in AllResponses : Write(<<t>>, r)
    /\ written' = Record(written, lastCall', lastReqs')
    /\ UNCHANGED <<pc, mainVars>>

StoreRead ==
    /\ pc = "store"
    /\ \E r \in AllResponses : Read(r)
    /\ UNCHANGED <<pc, mainVars, written>>

NextStore ==
    \/ StoreWrite
    \/ StoreRead

SpecStore == InitStore /\ [][NextStore]_vars

(***************************************************************************)
(* A caller writes tuples whose userset references can form a cycle, and   *)
(* checks.                                                                 *)
(***************************************************************************)
EvalTuples ==
    {TupleKey(Alice, "owner", Budget),
     TupleKey(UsersetRef(Budget, "owner"), "owner", DocX),
     TupleKey(UsersetRef(DocY, "owner"), "owner", DocX),
     TupleKey(UsersetRef(DocX, "owner"), "owner", DocY)}

InitEval == InUse("eval")

EvalWrite ==
    /\ pc = "eval"
    /\ \E t \in EvalTuples, r \in AllResponses : Write(<<t>>, r)
    /\ UNCHANGED <<pc, mainVars, written>>

EvalCheck ==
    /\ pc = "eval"
    /\ \E user \in {Alice, Bob}, object \in Documents, r \in AllResponses :
           Check(user, "owner", object, r)
    /\ UNCHANGED <<pc, mainVars, written>>

NextEval ==
    \/ EvalWrite
    \/ EvalCheck

SpecEval == InitEval /\ [][NextEval]_vars

(***************************************************************************)
(* Properties.                                                             *)
(***************************************************************************)
\* main's calls to Check, in order.
CheckEntries == SelectSeq(trace, LAMBDA e : e.op = "Check")

\* main's third call was Write and it returned nil.
WriteSucceeded == Len(trace) >= 3 /\ trace[3].op = "Write" /\ ~trace[3].err

\* C1: under the model main writes, once main's Write of (user:alice, owner,
\* document:budget-2024) to the store it created has succeeded, a check
\* that returns without error is allowed for user:alice and is not allowed
\* for any user for whom the store holds no owner tuple on the document.
C1_DirectCheck ==
    \A k \in 1..Len(trace) :
        (trace[k].op = "Check" /\ ~trace[k].err /\ WriteSucceeded) =>
            /\ trace[k].arg = Alice => trace[k].allowed
            /\ TupleKey(trace[k].arg, "owner", Budget) \notin srvTuples[storeID]
                   => ~trace[k].allowed

C1_Witness ==
    /\ Len(trace) >= 7
    /\ WriteSucceeded
    /\ \A k \in 4..7 : trace[k].op = "Check" /\ ~trace[k].err
    /\ trace[4].arg = Alice /\ trace[4].allowed
    /\ \A k \in 5..7 : ~trace[k].allowed

\* The tuples a request's "writes" array carries, in order.
RequestTuples(req) == [k \in 1..Len(req.body.writes) |-> req.body.writes[k].tuple_key]

\* C2: a Write sends one request whose tuples are exactly the list it was
\* given, and after a successful Write every tuple of the list is in the
\* store.
C2_WriteSendsEveryTuple ==
    lastCall.op = "Write" =>
        /\ Len(lastReqs) = 1
        /\ Len(RequestTuples(lastReqs[1])) = Len(lastCall.input)
        /\ \A k \in 1..Len(lastCall.input) : RequestTuples(lastReqs[1])[k] = lastCall.input[k]
        /\ ~lastCall.err =>
               \A k \in 1..Len(lastCall.input) : lastCall.input[k] \in srvTuples[storeID]

\* How many times a successful Read returned tuple t.
ReadCount(t) ==
    Cardinality({k \in 1..Len(lastCall.value.Tuples) : lastCall.value.Tuples[k].Key = t})

\* C3: a successful Read returns exactly once every tuple that one or more
\* successful writes submitted to the store.
C3_ReadReturnsWrittenOnce ==
    (lastCall.op = "Read" /\ ~lastCall.err) => \A t \in written.once : ReadCount(t) = 1

C3_Witness ==
    /\ lastCall.op = "Read"
    /\ ~lastCall.err
    /\ written.again # {}
    /\ Len(lastCall.value.Tuples) >= 2
    /\ \A t \in written.again : ReadCount(t) = 1

\* The k-th check returned without error and with the expected decision.
CheckOK(k) ==
    /\ ~CheckEntries[k].err
    /\ CheckEntries[k].allowed = testCases[k].expected

AllChecksOK ==
    /\ Len(CheckEntries) = Len(testCases)
    /\ \A k \in 1..Len(testCases) : CheckOK(k)

\* C4: the success verdict and exit status 0 only when every check returned
\* without error and as expected; after a check that returned an error or a
\* mismatching decision the success verdict is never printed and the
\* program ends with exit status 1.
C4_VerdictSound ==
    /\ (verdict = "passed" \/ exitStatus = 0) => AllChecksOK
    /\ (\E k \in 1..Len(CheckEntries) : ~CheckOK(k)) =>
           /\ verdict # "passed"
           /\ exitStatus # 0
           /\ pc = "exit" => exitStatus = 1

C4_Witness ==
    /\ pc = "exit"
    /\ exitStatus = 1
    /\ verdict = "failed"
    /\ \E k \in 1..Len(CheckEntries) :
           ~CheckEntries[k].err /\ CheckEntries[k].allowed # testCases[k].expected

\* C5 as stated: every write request and every check request carries the
\* store ID of the last successful CreateStore in its path and the model ID
\* of the last successful WriteAuthorizationModel in its body.
C5_StoreAndModelInEveryRequest ==
    \A k \in 1..Len(lastReqs) :
        lastReqs[k].path.endpoint \in {"write", "check"} =>
            /\ lastReqs[k].path.store = retStore
            /\ "authorization_model_id" \in DOMAIN lastReqs[k].body
            /\ lastReqs[k].body.authorization_model_id = retModel

\* C5 amended: every write request and every check request carries in its
\* path the store ID of the last successful CreateStore (the empty string
\* before one); a write request carries the model ID of the last successful
\* WriteAuthorizationModel (empty before one); a check request carries no
\* model ID.
C5_StoreInPathModelInWrite ==
    \A k \in 1..Len(lastReqs) :
        /\ lastReqs[k].path.endpoint \in {"write", "check"} =>
               lastReqs[k].path.store = retStore
        /\ lastReqs[k].path.endpoint = "write" =>
               /\ "authorization_model_id" \in DOMAIN lastReqs[k].body
               /\ lastReqs[k].body.authorization_model_id = retModel
        /\ lastReqs[k].path.endpoint = "check" =>
               "authorization_model_id" \notin DOMAIN lastReqs[k].body

C5_Witness ==
    /\ lastCall.op = "Write"
    /\ ~lastCall.err
    /\ Len(lastReqs) = 1
    /\ retStore # NoID
    /\ retModel # NoID
    /\ lastReqs[1].path.store = retStore
    /\ lastReqs[1].body.authorization_model_id = retModel

\* C6: a call sends at most one request, and a transport error, a status
\* >= 400 or a decoding error is returned as an error after that one
\* request.
C6_OneRequestNoRetry ==
    /\ Len(lastReqs) <= 1
    /\ lastCall.wire \in {"transport", "status", "decode"} =>
           lastCall.err /\ Len(lastReqs) = 1

C6_Witness ==
    /\ lastCall.op = "Check"
    /\ lastCall.wire = "status"
    /\ lastCall.err
    /\ Len(lastReqs) = 1

\* The userset graph of a tuple set: node <<relation, object>> leads to
\* <<R2, V>> when the tuple (V#R2, relation, object) is stored.
Nodes == Relations \X Documents

Succ(ts, n) == {m \in Nodes : TupleKey(UsersetRef(m[2], m[1]), n[1], n[2]) \in ts}

RECURSIVE Closure(_, _)
Closure(ts, S) ==
    LET T == S \cup UNION {Succ(ts, n) : n \in S}
    IN  IF T = S THEN S ELSE Closure(ts, T)

OnCycle(ts, n) == n \in Closure(ts, Succ(ts, n))

CycleReachable(ts, relation, object) ==
    \E n \in Closure(ts, {<<relation, object>>}) : OnCycle(ts, n)

\* A finite derivation exists (design 8): some node reachable through
\* userset references holds a direct tuple for the user.
Derivable(ts, user, relation, object) ==
    \E n \in Closure(ts, {<<relation, object>>}) : TupleKey(user, n[1], n[2]) \in ts

Served == srvDiag.store # NoID

StepOrder ==
    <<"CreateStore", "WriteAuthorizationModel", "Write",
      "Check", "Check", "Check", "Check", "Read">>

\* C8: main's requests follow the order create store, write model, write
\* tuples, checks, read, and after an error of one of the first three the
\* program has exited with status 1 and sent nothing more.
C8_OrderAndGating ==
    /\ Len(trace) <= Len(StepOrder)
    /\ \A k \in 1..Len(trace) :
           /\ trace[k].op = StepOrder[k]
           /\ trace[k].reqs = 1
           /\ (k <= 3 /\ trace[k].err) =>
                  Len(trace) = k /\ pc = "exit" /\ exitStatus = 1

C8_Witness ==
    /\ pc = "exit"
    /\ exitStatus = 1
    /\ Len(trace) = 3
    /\ trace[3].op = "Write"
    /\ trace[3].err

\* C9: once Write has succeeded, the four checks are made once each in the
\* order of the test cases whatever each returned, and Read follows the
\* last check before the program ends.
C9_AllChecksThenRead ==
    WriteSucceeded =>
        /\ pc = "check" => i <= Len(testCases) /\ Len(trace) = 3 + (i - 1)
        /\ pc \in {"read", "final", "exit"} =>
               /\ Len(CheckEntries) = Len(testCases)
               /\ \A k \in 1..Len(testCases) :
                      trace[3 + k].op = "Check" /\ trace[3 + k].arg = testCases[k].user
        /\ pc \in {"final", "exit"} => Len(trace) = 8 /\ trace[8].op = "Read"

C9_Witness ==
    /\ pc = "exit"
    /\ WriteSucceeded
    /\ Len(trace) = 8
    /\ trace[4].err
    /\ ~trace[5].err /\ trace[5].allowed
    /\ trace[8].op = "Read"

====
